---- MODULE Spec2Model ----
(***************************************************************************)
(* go-types (src/types.go): seven wrapper types that decode a JSON string  *)
(* into a native value (UnmarshalJSON) and hand it back (Value).           *)
(*                                                                         *)
(* Strings are sequences of one-character strings.  Numbers (int, float64, *)
(* time.Duration) do not fit a 32-bit model integer, so a number is the    *)
(* exact decimal  (-1)^neg * limbs * 10000^exp  in canonical form.         *)
(* A float64 is the exact decimal it equals, or an infinity, or NaN; each  *)
(* float64 operation rounds its exact result to the nearest float64, ties  *)
(* to even (RoundFloat64).  The two zeros of float64, equal under ==, are  *)
(* one.  A character outside ASCII is written by its code point, "U+00A0". *)
(*                                                                         *)
(* Intermediate results are handed on as operator parameters (or bound by  *)
(* x \in {e}) rather than named in LET, so that each is computed once.     *)
(***************************************************************************)
EXTENDS Integers, Sequences, FiniteSets, TLC

VARIABLES
    kind,   \* the wrapper's type
    doc,    \* the document of the latest UnmarshalJSON call (or the one to come)
    life,   \* "zero": no call yet; "failed": no call succeeded; "decoded"
    val,    \* the wrapper's stored value
    err,    \* the error the latest UnmarshalJSON call returned
    ret,    \* <<v>>: Value() returned v since the latest UnmarshalJSON; else <<>>
    last    \* the document of the latest UnmarshalJSON call that returned nil

vars == <<kind, doc, life, val, err, ret, last>>

\* Longest token drawn exhaustively from a type's alphabet.
MaxLen == 3

------------------------------------------------------------------------------
(* Exact decimal numbers: (-1)^neg * limbs * 10000^exp, the limbs being the   *)
(* base-10000 digits, most significant first, with no zero limb at either end *)
(* (zero is <<>> with exp 0), so that equal numbers are equal records.         *)

Digits == {"0", "1", "2", "3", "4", "5", "6", "7", "8", "9"}

DigitChars == <<"0", "1", "2", "3", "4", "5", "6", "7", "8", "9">>

DigitVal(c) == (CHOOSE i \in 1..10 : DigitChars[i] = c) - 1

DigitVals(s) == [i \in 1..Len(s) |-> DigitVal(s[i])]

Zeros(n) == [i \in 1..n |-> 0]

Reverse(s) == [i \in 1..Len(s) |-> s[Len(s) + 1 - i]]

\* How many leading (trailing) elements of d are 0.
LeadZeros(d) ==
    CHOOSE n \in 0..Len(d) :
        (\A i \in 1..n : d[i] = 0) /\ (n = Len(d) \/ d[n + 1] # 0)

TrailZeros(d) ==
    CHOOSE n \in 0..Len(d) :
        (\A i \in 1..n : d[Len(d) + 1 - i] = 0) /\ (n = Len(d) \/ d[Len(d) - n] # 0)

Zero == [neg |-> FALSE, limbs |-> <<>>, exp |-> 0]

\* The canonical form, given the counts lz, tz of leading and trailing zero limbs.
NormAt(neg, limbs, exp, lz, tz) ==
    IF lz = Len(limbs) THEN Zero
    ELSE [neg |-> neg, limbs |-> SubSeq(limbs, lz + 1, Len(limbs) - tz), exp |-> exp + tz]

Norm(neg, limbs, exp) == NormAt(neg, limbs, exp, LeadZeros(limbs), TrailZeros(limbs))

\* Decimal digits d, a multiple of four of them, as base-10000 limbs.
Limbs(d) ==
    [i \in 1..(Len(d) \div 4) |->
        1000 * d[4*i - 3] + 100 * d[4*i - 2] + 10 * d[4*i - 1] + d[4*i]]

\* digs with r zeros behind and zeros in front up to a multiple of four digits.
Pad(digs, r) == Zeros((4 - ((Len(digs) + r) % 4)) % 4) \o digs \o Zeros(r)

\* digs * 10^e10 for decimal digits digs (numbers 0..9, most significant first).
Dec(neg, digs, e10) == Norm(neg, Limbs(Pad(digs, e10 % 4)), (e10 - (e10 % 4)) \div 4)

\* The whole number written by the decimal digit characters s.
Nat10(s) == Dec(FALSE, DigitVals(s), 0)

Neg(a) == IF a.limbs = <<>> THEN a ELSE [a EXCEPT !.neg = ~a.neg]

\* Addition and multiplication of limb sequences, least significant limb first.
LimbAt(x, i) == IF i <= Len(x) THEN x[i] ELSE 0

\* Limb i of x + y takes a carry when the pair of limbs below reaches 10000, or
\* is 9999 and takes one.
RECURSIVE CarryInto(_, _, _)
CarryInto(x, y, i) ==
    IF i = 1 THEN FALSE
    ELSE IF LimbAt(x, i - 1) + LimbAt(y, i - 1) >= 10000 THEN TRUE
    ELSE IF LimbAt(x, i - 1) + LimbAt(y, i - 1) < 9999 THEN FALSE
    ELSE CarryInto(x, y, i - 1)

AddLE(x, y) ==
    <<>> \o [i \in 1..((IF Len(x) > Len(y) THEN Len(x) ELSE Len(y)) + 1) |->
               (LimbAt(x, i) + LimbAt(y, i) + (IF CarryInto(x, y, i) THEN 1 ELSE 0)) % 10000]

\* x * k for one limb k: the low halves of the limbs' products plus the high
\* halves one limb up.
MulSmallLE(x, k) ==
    AddLE(<<>> \o [i \in 1..Len(x) |-> (x[i] * k) % 10000],
          <<0>> \o [i \in 1..Len(x) |-> (x[i] * k) \div 10000])

\* x * y, by halves of y.
RECURSIVE MulLE(_, _)
MulLE(x, y) ==
    IF x = <<>> \/ y = <<>> THEN <<>>
    ELSE IF Len(y) = 1 THEN MulSmallLE(x, y[1])
    ELSE AddLE(MulLE(x, SubSeq(y, 1, Len(y) \div 2)),
               Zeros(Len(y) \div 2) \o MulLE(x, SubSeq(y, (Len(y) \div 2) + 1, Len(y))))

\* a * b
Mul(a, b) ==
    IF a.limbs = <<>> \/ b.limbs = <<>> THEN Zero
    ELSE Norm(a.neg # b.neg, Reverse(MulLE(Reverse(a.limbs), Reverse(b.limbs))),
              a.exp + b.exp)

\* a + b for whole numbers a, b >= 0
AddNat(a, b) ==
    Norm(FALSE, Reverse(AddLE(Reverse(a.limbs \o Zeros(a.exp)),
                              Reverse(b.limbs \o Zeros(b.exp)))), 0)

\* x <= y, lexicographically, for sequences of one length
LexLE(x, y) ==
    x = y \/ \E i \in 1..Len(x) : x[i] < y[i] /\ \A j \in 1..(i - 1) : x[j] = y[j]

\* x with zeros behind, cut to n elements
PadTo(x, n) == SubSeq(x \o Zeros(n), 1, n)

\* |a| <= |b|
MagLE(a, b) ==
    \/ a.limbs = <<>>
    \/ b.limbs # <<>> /\ Len(a.limbs) + a.exp < Len(b.limbs) + b.exp
    \/ b.limbs # <<>> /\ Len(a.limbs) + a.exp = Len(b.limbs) + b.exp
       /\ LexLE(PadTo(a.limbs, Len(a.limbs) + Len(b.limbs)),
                PadTo(b.limbs, Len(a.limbs) + Len(b.limbs)))

\* Rounding toward zero to a whole number.
Trunc(a) ==
    IF a.exp >= 0 THEN a
    ELSE IF -a.exp >= Len(a.limbs) THEN Zero
    ELSE Norm(a.neg, SubSeq(a.limbs, 1, Len(a.limbs) + a.exp), 0)

One == [neg |-> FALSE, limbs |-> <<1>>, exp |-> 0]

Two == [neg |-> FALSE, limbs |-> <<2>>, exp |-> 0]

\* The whole number n < 10000.
SmallNat(n) == Norm(FALSE, <<n>>, 0)

\* a * a
Square(a) == Mul(a, a)

\* 1 << k
RECURSIVE Pow2(_)
Pow2(k) ==
    IF k = 0 THEN One
    ELSE IF k % 2 = 0 THEN Square(Pow2(k \div 2))
    ELSE Mul(Two, Pow2(k - 1))

\* 10^k
Pow10(k) == Dec(FALSE, <<1>>, k)

\* The decimal digit of limb l at place k (0 the thousands, 3 the units).
LimbDigit(l, k) ==
    CASE k = 0 -> l \div 1000
      [] k = 1 -> (l \div 100) % 10
      [] k = 2 -> (l \div 10) % 10
      [] OTHER -> l % 10

StripLeadZeros(d) == SubSeq(d, LeadZeros(d) + 1, Len(d))

\* The decimal digits of the limbs, without leading zeros.
DecDigits(a) ==
    StripLeadZeros([i \in 1..(4 * Len(a.limbs)) |->
                       LimbDigit(a.limbs[((i - 1) \div 4) + 1], (i - 1) % 4)])

\* How many decimal digits the whole part of a has (negative: zeros after the point).
WholeDigits(a) == Len(DecDigits(a)) + 4 * a.exp

\* math.MaxInt64
MaxInt64 == Nat10(<<"9","2","2","3","3","7","2","0","3","6","8","5","4","7","7","5","8","0","7">>)

\* 1 << 63
Two63 == Pow2(63)

\* math.MinInt64
MinInt64 == Neg(Two63)

\* Whether the whole number a is an int64.
InInt64(a) == IF a.neg THEN MagLE(a, Two63) ELSE MagLE(a, MaxInt64)

\* 1 << 64, and math.MaxUint64
Two64 == Pow2(64)

MaxUint64 ==
    Nat10(<<"1","8","4","4","6","7","4","4","0","7","3","7","0","9","5","5","1","6","1","5">>)

\* The float64 values that are no numbers.
Inf(neg) == [neg |-> neg, inf |-> TRUE]

NaN == [nan |-> TRUE]

IsFinite(a) == "limbs" \in DOMAIN a

RECURSIVE Pow5(_)
Pow5(k) ==
    IF k = 0 THEN One
    ELSE IF k % 2 = 0 THEN Square(Pow5(k \div 2))
    ELSE Mul(SmallNat(5), Pow5(k - 1))

\* 2^k for any integer k: 2^-k is 5^k * 10^-k.
TwoTo(k) == IF k >= 0 THEN Pow2(k) ELSE Mul(Pow5(-k), Pow10(k))

\* Whether the whole number n is even.
IsEven(n) == n.limbs = <<>> \/ n.exp > 0 \/ n.limbs[Len(n.limbs)] % 2 = 0

\* x >= 0 rounded to a whole number, a half to the even one; t is x cut to a
\* whole number and t2 is 2x cut to one.
RoundHalfEvenAt(x, t, t2) ==
    IF t2 = Mul(t, Two) THEN t
    ELSE IF Mul(x, Two) = t2 /\ IsEven(t) THEN t
    ELSE AddNat(t, One)

RoundHalfEven(x) == RoundHalfEvenAt(x, Trunc(x), Trunc(Mul(x, Two)))

\* The b with 2^b <= |a| < 2^(b+1), for a # 0: it is at least lo, which is
\* below (digits - 1) * log2(10), and below digits * log2(10) + 1.
Log2From(a, lo, hi) == lo + Cardinality({c \in (lo + 1)..hi : MagLE(TwoTo(c), a)})

Log2Floor(a) ==
    Log2From(a, (((WholeDigits(a) - 1) * 3321928) \div 1000000) - 1,
                ((WholeDigits(a) * 3321928) \div 1000000) + 1)

\* The exponent of the last bit of the 53-bit mantissa of the float64 nearest a,
\* -1074 for the denormals.
Quantum(b) == IF b - 52 < -1074 THEN -1074 ELSE b - 52

\* The least power of two beyond math.MaxFloat64.
Two1024 == Pow2(1024)

\* r, a float64 in magnitude or 2^1024, with its sign.
FloatAt(neg, r) ==
    IF MagLE(Two1024, r) THEN Inf(neg) ELSE IF neg THEN Neg(r) ELSE r

RoundAt(a, e) == FloatAt(a.neg, Mul(RoundHalfEven(Mul([a EXCEPT !.neg = FALSE], TwoTo(-e))), TwoTo(e)))

\* The float64 nearest the decimal a, ties to even: what a float64 operation
\* with the exact result a returns.  From 2^1024 - 2^970 on it is an infinity,
\* up to 2^-1075 it is 0.
RoundFloat64(a) ==
    IF a.limbs = <<>> THEN Zero
    ELSE IF WholeDigits(a) > 309 THEN Inf(a.neg)
    ELSE IF WholeDigits(a) < -323 THEN Zero
    ELSE RoundAt(a, Quantum(Log2Floor(a)))

\* The float64 product f * g.
FloatMul(f, g) ==
    IF f = NaN \/ g = NaN THEN NaN
    ELSE IF ~IsFinite(f) THEN (IF g = Zero THEN NaN ELSE Inf(f.neg # g.neg))
    ELSE IF ~IsFinite(g) THEN (IF f = Zero THEN NaN ELSE Inf(f.neg # g.neg))
    ELSE RoundFloat64(Mul(f, g))

\* The whole part of a / c for a >= 0 and c > 0, a / c being below
\* m + 2^(bit + 1): m plus those of the n bits from bit down that fit, the
\* upper half of the bits first and then the rest.
RECURSIVE QuotBits(_, _, _, _, _)
QuotBits(a, c, m, bit, n) ==
    IF n = 0 THEN m
    ELSE IF n = 1
    THEN (IF MagLE(Mul(AddNat(m, Pow2(bit)), c), a) THEN AddNat(m, Pow2(bit)) ELSE m)
    ELSE CHOOSE q \in {QuotBits(a, c, top, bit - (n \div 2), n - (n \div 2)) :
                           top \in {QuotBits(a, c, m, bit, n \div 2)}} : TRUE

\* a / c rounded to a whole number, a half to the even one; m is its whole part.
QuotRound(a, c, m) ==
    IF Mul(AddNat(Mul(m, Two), One), c) = Mul(a, Two)
    THEN (IF IsEven(m) THEN m ELSE AddNat(m, One))
    ELSE IF MagLE(Mul(AddNat(Mul(m, Two), One), c), Mul(a, Two)) THEN AddNat(m, One)
    ELSE m

\* The b with 2^b <= a / c < 2^(b+1): d, the difference of the two logarithms,
\* or one less.
QuotLog2(a, c, d) == IF MagLE(Mul(c, TwoTo(d)), a) THEN d ELSE d - 1

\* a / c rounded at the bit 2^e, c2 being c * 2^e: the mantissa is below 2^54.
FloatDivAt(a, c2, e) ==
    CHOOSE q \in {FloatAt(FALSE, Mul(QuotRound(a, c2, m), TwoTo(e))) :
                      m \in {QuotBits(a, c2, Zero, 53, 54)}} : TRUE

\* The float64 quotient f / g of a float64 f >= 0 by a float64 g > 0.
FloatDiv(f, g) ==
    IF ~IsFinite(g) \/ f = Zero THEN Zero
    ELSE CHOOSE q \in UNION {{FloatDivAt(f, c2, e) : c2 \in {Mul(g, TwoTo(e))}} :
                                 e \in {Quantum(QuotLog2(f, g, Log2Floor(f) - Log2Floor(g)))}} : TRUE

------------------------------------------------------------------------------
(* package strings *)

Drop(s, n) == SubSeq(s, n + 1, Len(s))

\* strings.HasSuffix
HasSuffix(s, suffix) ==
    Len(s) >= Len(suffix) /\ Drop(s, Len(s) - Len(suffix)) = suffix

\* strings.TrimSuffix
TrimSuffix(s, suffix) ==
    IF HasSuffix(s, suffix) THEN SubSeq(s, 1, Len(s) - Len(suffix)) ELSE s

\* How many leading (trailing) characters of s lie in set.
PrefixLen(s, set) ==
    CHOOSE n \in 0..Len(s) :
        (\A i \in 1..n : s[i] \in set) /\ (n = Len(s) \/ s[n + 1] \notin set)

SuffixLen(s, set) ==
    CHOOSE n \in 0..Len(s) :
        (\A i \in 1..n : s[Len(s) + 1 - i] \in set)
        /\ (n = Len(s) \/ s[Len(s) - n] \notin set)

TrimLeftSet(s, cutset) == Drop(s, PrefixLen(s, cutset))

TrimRightSet(s, cutset) == SubSeq(s, 1, Len(s) - SuffixLen(s, cutset))

\* strings.Trim(s, cutset): every leading and trailing character of cutset goes.
Trim(s, cutset) == TrimRightSet(TrimLeftSet(s, cutset), cutset)

\* unicode.IsSpace: '\t', '\n', '\v', '\f', '\r', ' ', U+0085, U+00A0 and the
\* characters of category Z.
Space ==
    {" ", "\t", "\n", "\r", "\f", "U+000B", "U+0085", "U+00A0", "U+1680", "U+2000",
     "U+2001", "U+2002", "U+2003", "U+2004", "U+2005", "U+2006", "U+2007", "U+2008",
     "U+2009", "U+200A", "U+2028", "U+2029", "U+202F", "U+205F", "U+3000"}

\* strings.TrimSpace
TrimSpace(s) == Trim(s, Space)

\* Where the separators of s are; the position of the k-th (0 before the first,
\* Len(s) + 1 after the last).
SepAt(s, sep) == {i \in 1..Len(s) : s[i] = sep}

NthSep(s, at, k) ==
    IF k = 0 THEN 0
    ELSE IF k > Cardinality(at) THEN Len(s) + 1
    ELSE CHOOSE i \in at : Cardinality({j \in at : j < i}) = k - 1

SplitAt(s, at) ==
    [k \in 1..(Cardinality(at) + 1) |->
        SubSeq(s, NthSep(s, at, k - 1) + 1, NthSep(s, at, k) - 1)]

\* A faulty Split that leaves out the empty parts (as strings.Fields would).
SplitNonEmpty(s, sep) == SelectSeq(SplitAt(s, SepAt(s, sep)), LAMBDA part : part # <<>>)

\* strings.Split(s, sep) for a one-character sep: one part more than separators,
\* part k lying between separator k-1 and separator k.
Split(s, sep) == SplitAt(s, SepAt(s, sep))

------------------------------------------------------------------------------
(* package strconv.  A parse returns [v, err]; err is "nil" on success. *)

NoErr == "nil"

ErrSyntax == "strconv: invalid syntax"

ErrRange == "strconv: value out of range"

\* The length of a leading sign, and whether it is '-'.
SignLen(s) == IF s # <<>> /\ s[1] \in {"+", "-"} THEN 1 ELSE 0

IsNeg(s) == s # <<>> /\ s[1] = "-"

\* How many decimal digits follow the first i characters of s.
DigitsFrom(s, i) == PrefixLen(Drop(s, i), Digits)

\* Whether a '.' follows the first i characters of s; then the number of digits
\* after it, and the length of the '.' with its digits.
HasDot(s, i) == Len(s) > i /\ s[i + 1] = "."

FracLen(s, i) == IF HasDot(s, i) THEN DigitsFrom(s, i + 1) ELSE 0

DotLen(s, i) == IF HasDot(s, i) THEN 1 + DigitsFrom(s, i + 1) ELSE 0

\* The exponent accumulator of strconv's readFloat: e = e*10 + digit while e < 10000.
RECURSIVE ExpAcc(_, _)
ExpAcc(s, e) ==
    IF s = <<>> THEN e
    ELSE ExpAcc(Tail(s), IF e < 10000 THEN e * 10 + DigitVal(s[1]) ELSE e)

HexLower == <<"0", "1", "2", "3", "4", "5", "6", "7", "8", "9", "a", "b", "c", "d", "e", "f">>

HexUpper == <<"0", "1", "2", "3", "4", "5", "6", "7", "8", "9", "A", "B", "C", "D", "E", "F">>

HexVal(c) == (CHOOSE i \in 1..16 : c \in {HexLower[i], HexUpper[i]}) - 1

\* The whole number written by the hexadecimal digits s, after acc.
RECURSIVE HexNat(_, _)
HexNat(s, acc) ==
    IF s = <<>> THEN acc
    ELSE HexNat(Tail(s), AddNat(Mul(acc, SmallNat(16)), SmallNat(HexVal(s[1]))))

\* s is the word written lower in small and upper in capital letters, in any mix.
FoldEq(s, lower, upper) ==
    Len(s) = Len(lower) /\ \A i \in 1..Len(s) : s[i] \in {lower[i], upper[i]}

IsNaNWord(s) == FoldEq(s, <<"n", "a", "n">>, <<"N", "A", "N">>)

IsInfWord(s) ==
    \/ FoldEq(s, <<"i", "n", "f">>, <<"I", "N", "F">>)
    \/ FoldEq(s, <<"i", "n", "f", "i", "n", "i", "t", "y">>,
                 <<"I", "N", "F", "I", "N", "I", "T", "Y">>)

\* strconv's special: [+-] inf, [+-] infinity, nan.
IsSpecial(s) == IsInfWord(Drop(s, SignLen(s))) \/ IsNaNWord(s)

Special(s) == IF IsNaNWord(s) THEN NaN ELSE Inf(IsNeg(s))

\* Whether the prefix 0x or 0X, with something after it, follows the first i
\* characters of s.
HasHexPrefix(s, i) == Len(s) > i + 2 /\ s[i + 1] = "0" /\ s[i + 2] \in {"x", "X"}

\* The digits of a float, and the letters that start its exponent.
FloatDigits(hex) ==
    IF hex THEN {HexLower[i] : i \in 1..16} \cup {HexUpper[i] : i \in 1..16} ELSE Digits

ExpChars(hex) == IF hex THEN {"p", "P"} ELSE {"e", "E"}

\* strconv's underscoreOK: every '_' follows a digit or the prefix 0x and is
\* followed by a digit.
UnderscoreOK(s) ==
    \A p \in 1..Len(s) :
        s[p] = "_" =>
            /\ p < Len(s)
            /\ s[p + 1] \in FloatDigits(HasHexPrefix(s, SignLen(s)))
            /\ p > 1
            /\ \/ s[p - 1] \in FloatDigits(HasHexPrefix(s, SignLen(s)))
               \/ HasHexPrefix(s, SignLen(s)) /\ p = SignLen(s) + 3

WithoutUnderscores(s) == SelectSeq(s, LAMBDA c : c # "_")

\* How many digits of the set follow the first i characters of s, and the
\* length of a '.' with the digits after it.
DigitsFromIn(s, i, set) == PrefixLen(Drop(s, i), set)

DotLenIn(s, i, set) == IF HasDot(s, i) THEN 1 + DigitsFromIn(s, i + 1, set) ELSE 0

\* The number read: the mantissa digits as a whole number, times 10^e for
\* decimal and times 2^e for hexadecimal digits.
\* A binary exponent beyond these leaves the float64 of a number of n
\* hexadecimal digits what it is at them, 0 or an infinity.
ClampExp(e, n) ==
    IF e > 1100 THEN 1100 ELSE IF e < -(1100 + 4 * n) THEN -(1100 + 4 * n) ELSE e

ExactFloat(hex, neg, digs, e) ==
    IF hex THEN Mul(IF neg THEN Neg(HexNat(digs, Zero)) ELSE HexNat(digs, Zero),
                    TwoTo(ClampExp(e, Len(digs))))
    ELSE Dec(neg, DigitVals(digs), e)

\* The nearest float64, with ErrRange when it is an infinity.
FloatOf(f) == [v |-> f, err |-> IF IsFinite(f) THEN NoErr ELSE ErrRange]

\* The end of strconv's readFloat and ParseFloat.  s holds a sign and a prefix
\* of i characters, n digits, m digits after a '.', all ending at j; then, if
\* hasE, the exponent's letter, a sign of k characters and x decimal digits.  It
\* is a float when the mantissa has a digit, an exponent has one, a hexadecimal
\* mantissa has an exponent, and nothing follows.
ParseFloatEnd(s, hex, i, n, m, j, hasE, k, x) ==
    IF ~(/\ n + m > 0
         /\ hasE => x > 0
         /\ hex => hasE
         /\ Len(s) = j + (IF hasE THEN 1 + k + x ELSE 0))
    THEN [v |-> Zero, err |-> ErrSyntax]
    ELSE FloatOf(RoundFloat64(ExactFloat(hex, IsNeg(s),
                     SubSeq(s, i + 1, i + n) \o SubSeq(s, i + n + 2, i + n + 1 + m),
                     (IF hasE /\ k = 1 /\ s[j + 2] = "-"
                      THEN -ExpAcc(SubSeq(s, j + 2 + k, j + 1 + k + x), 0)
                      ELSE ExpAcc(SubSeq(s, j + 2 + k, j + 1 + k + x), 0))
                         - (IF hex THEN 4 * m ELSE m))))

\* The exponent's digits.
ParseFloatExpDigits(s, hex, i, n, m, j, hasE, k) ==
    ParseFloatEnd(s, hex, i, n, m, j, hasE, k, IF hasE THEN DigitsFrom(s, j + 1 + k) ELSE 0)

\* The exponent's letter and sign.
ParseFloatExp(s, hex, i, n, m, j) ==
    ParseFloatExpDigits(s, hex, i, n, m, j,
        Len(s) > j /\ s[j + 1] \in ExpChars(hex),
        IF Len(s) > j + 1 /\ s[j + 1] \in ExpChars(hex) /\ s[j + 2] \in {"+", "-"}
        THEN 1 ELSE 0)

\* The '.' and the digits after it.
ParseFloatFrac(s, hex, i, n) ==
    ParseFloatExp(s, hex, i, n,
        IF HasDot(s, i + n) THEN DigitsFromIn(s, i + n + 1, FloatDigits(hex)) ELSE 0,
        i + n + DotLenIn(s, i + n, FloatDigits(hex)))

\* The mantissa's digits, after the sign and the prefix of i characters.
ParseFloatMantissa(s, hex, i) ==
    ParseFloatFrac(s, hex, i, DigitsFromIn(s, i, FloatDigits(hex)))

\* readFloat on s without its underscores.
ReadFloat(s) ==
    ParseFloatMantissa(s, HasHexPrefix(s, SignLen(s)),
        SignLen(s) + (IF HasHexPrefix(s, SignLen(s)) THEN 2 ELSE 0))

\* strconv.ParseFloat(s, 64): [+-] inf, [+-] infinity or nan in any case; or
\* [+-] digits [. digits] [eE [+-] digits], or [+-] 0x hexdigits [. hexdigits]
\* pP [+-] digits, with at least one mantissa digit, underscores between digits
\* and nothing after.  The value is the nearest float64, and an infinity comes
\* with ErrRange.
ParseFloat(s) ==
    IF IsSpecial(s) THEN [v |-> Special(s), err |-> NoErr]
    ELSE IF ~UnderscoreOK(s) THEN [v |-> Zero, err |-> ErrSyntax]
    ELSE ReadFloat(WithoutUnderscores(s))

\* The int64 n, or the nearest int64 with ErrRange.
IntOf(n) ==
    IF InInt64(n) THEN [v |-> n, err |-> NoErr]
    ELSE [v |-> IF n.neg THEN MinInt64 ELSE MaxInt64, err |-> ErrRange]

\* body starts with n digits.  ParseUint reads from the left and stops with
\* ErrRange at the digit that takes the number beyond a uint64, with ErrSyntax
\* at a character that is no digit, whichever comes first.
AtoiScan(neg, body, n) ==
    IF ~MagLE(Nat10(SubSeq(body, 1, n)), MaxUint64)
    THEN [v |-> IF neg THEN MinInt64 ELSE MaxInt64, err |-> ErrRange]
    ELSE IF n < Len(body) THEN [v |-> Zero, err |-> ErrSyntax]
    ELSE IntOf(Dec(neg, DigitVals(body), 0))

AtoiDigits(neg, body) ==
    IF body = <<>> THEN [v |-> Zero, err |-> ErrSyntax]
    ELSE AtoiScan(neg, body, DigitsFrom(body, 0))

\* strconv.Atoi(s) with a 64-bit int: [+-] digits, at least one digit.
Atoi(s) == AtoiDigits(IsNeg(s), Drop(s, SignLen(s)))

\* strconv.ParseBool(s)
ParseBool(s) ==
    IF s \in {<<"1">>, <<"t">>, <<"T">>, <<"t","r","u","e">>, <<"T","R","U","E">>,
              <<"T","r","u","e">>}
    THEN [v |-> TRUE, err |-> NoErr]
    ELSE IF s \in {<<"0">>, <<"f">>, <<"F">>, <<"f","a","l","s","e">>,
                   <<"F","A","L","S","E">>, <<"F","a","l","s","e">>}
    THEN [v |-> FALSE, err |-> NoErr]
    ELSE [v |-> FALSE, err |-> ErrSyntax]

------------------------------------------------------------------------------
(* package time *)

ErrDuration == "time: invalid duration"

\* time's unitMap, in nanoseconds
unitMap ==
    { [u |-> <<"n","s">>, ns |-> One],
      [u |-> <<"u","s">>, ns |-> Pow10(3)],
      [u |-> <<"U+00B5","s">>, ns |-> Pow10(3)],
      [u |-> <<"U+03BC","s">>, ns |-> Pow10(3)],
      [u |-> <<"m","s">>, ns |-> Pow10(6)],
      [u |-> <<"s">>, ns |-> Pow10(9)],
      [u |-> <<"m">>, ns |-> Mul(Nat10(<<"6">>), Pow10(10))],
      [u |-> <<"h">>, ns |-> Mul(Nat10(<<"3","6">>), Pow10(11))] }

KnownUnit(u) == \E e \in unitMap : e.u = u

UnitNs(u) == (CHOOSE e \in unitMap : e.u = u).ns

\* The length of the unit that follows the first j characters of s: everything
\* up to the next '.' or digit.
UnitLen(s, j) ==
    CHOOSE n \in 0..(Len(s) - j) :
        /\ \A i \in 1..n : s[j + i] \notin Digits \cup {"."}
        /\ (j + n = Len(s) \/ s[j + n + 1] \in Digits \cup {"."})

\* time's leadingFraction keeps the digits of the fraction up to the one that
\* would take their number beyond 1<<63.
FracKept(fp) ==
    SubSeq(fp, 1, CHOOSE k \in 0..Len(fp) :
                      /\ MagLE(Nat10(SubSeq(fp, 1, k)), Two63)
                      /\ (k = Len(fp) \/ ~MagLE(Nat10(SubSeq(fp, 1, k + 1)), Two63)))

\* The scale of time's leadingFraction is a float64 that starts as 1 and takes
\* scale *= 10 for each digit kept.  It is held as m * 2^e with a mantissa m of
\* at most 53 bits: the product 10 * m has up to four bits more, and is rounded
\* at the bit 2^t that brings it back to 53.  Beyond 2^1024 it is an infinity
\* and stays one.
ScaleRound(m10, e, t) == [m |-> RoundHalfEven(Mul(m10, TwoTo(-t))), e |-> e + t]

ScaleTimesTen(m10, e) ==
    ScaleRound(m10, e, CHOOSE t \in 0..4 : /\ ~MagLE(Pow2(53 + t), m10)
                                           /\ (t = 0 \/ MagLE(Pow2(52 + t), m10)))

\* scale *= 10
ScaleStep(scale) ==
    IF scale.e > 1024 THEN scale ELSE ScaleTimesTen(Mul(scale.m, SmallNat(10)), scale.e)

\* scale *= 10, k times: the first half of them, then the rest.
RECURSIVE ScaleSteps(_, _)
ScaleSteps(scale, k) ==
    IF k = 0 THEN scale
    ELSE IF k = 1 THEN ScaleStep(scale)
    ELSE CHOOSE r \in {ScaleSteps(half, k - (k \div 2)) :
                           half \in {ScaleSteps(scale, k \div 2)}} : TRUE

ScaleValue(scale) ==
    IF scale.e > 1024 THEN Inf(FALSE) ELSE FloatAt(FALSE, Mul(scale.m, TwoTo(scale.e)))

\* The scale after k digits.
FracScale(k) == ScaleValue(ScaleSteps([m |-> One, e |-> 0], k))

\* uint64(float64(f) * (float64(unit) / scale)) for the kept digits f of the
\* fraction, every operation rounding to float64.
FracNs(f, unit) ==
    CHOOSE ns \in UNION {{Trunc(FloatMul(RoundFloat64(Nat10(f)), q)) : q \in {FloatDiv(u, scale)}} :
                             u \in {RoundFloat64(unit)}, scale \in {FracScale(Len(f))}} : TRUE

\* v*unit + the fraction's nanoseconds, for the digits ip before and fp after
\* the '.'.
ComponentSum(v, frac) == IF frac = Zero THEN v ELSE AddNat(v, frac)

ComponentNs(ip, fp, unit) ==
    ComponentSum(Mul(Nat10(ip), unit),
                 IF Nat10(FracKept(fp)) = Zero THEN Zero ELSE FracNs(FracKept(fp), unit))

BadDuration == [v |-> Zero, ok |-> FALSE]

\* The loop of time.ParseDuration over the components [0-9]*(\.[0-9]*)?[a-z]+ ;
\* d is the sum so far, in nanoseconds.  ok is FALSE for a malformed component,
\* an unknown unit, or a component or a sum beyond 1<<63.
RECURSIVE DurationParts(_, _)

\* d += v in uint64, for the component v just read: d, v <= 1<<63, and their
\* sum wraps to 0 at 1<<64.
DurationNext(rest, d, v) ==
    IF ~MagLE(v, Two63) THEN BadDuration
    ELSE IF AddNat(d, v) = Two64 THEN DurationParts(rest, Zero)
    ELSE IF ~MagLE(AddNat(d, v), Two63) THEN BadDuration
    ELSE DurationParts(rest, AddNat(d, v))

\* The component has n digits, m digits after a '.', ending at j, and a unit of
\* u characters.
DurationAdd(s, d, n, m, j, u) ==
    IF n + m = 0 \/ u = 0 \/ ~KnownUnit(SubSeq(s, j + 1, j + u)) THEN BadDuration
    ELSE DurationNext(Drop(s, j + u), d,
                      ComponentNs(SubSeq(s, 1, n), SubSeq(s, n + 2, n + 1 + m),
                                  UnitNs(SubSeq(s, j + 1, j + u))))

DurationUnit(s, d, n, m, j) == DurationAdd(s, d, n, m, j, UnitLen(s, j))

DurationFrac(s, d, n) == DurationUnit(s, d, n, FracLen(s, n), n + DotLen(s, n))

DurationParts(s, d) ==
    IF s = <<>> THEN [v |-> d, ok |-> TRUE]
    ELSE IF s[1] \notin Digits \cup {"."} THEN BadDuration
    ELSE DurationFrac(s, d, DigitsFrom(s, 0))

\* The sign and the range of the sum p.
DurationOf(neg, p) ==
    IF ~p.ok THEN [v |-> Zero, err |-> ErrDuration]
    ELSE IF neg THEN [v |-> Neg(p.v), err |-> NoErr]
    ELSE IF ~MagLE(p.v, MaxInt64) THEN [v |-> Zero, err |-> ErrDuration]
    ELSE [v |-> p.v, err |-> NoErr]

ParseDurationBody(neg, body) ==
    IF body = <<"0">> THEN [v |-> Zero, err |-> NoErr]
    ELSE IF body = <<>> THEN [v |-> Zero, err |-> ErrDuration]
    ELSE DurationOf(neg, DurationParts(body, Zero))

\* time.ParseDuration(s): [+-] then "0" or one or more components.
ParseDuration(s) == ParseDurationBody(IsNeg(s), Drop(s, SignLen(s)))

------------------------------------------------------------------------------
(* package encoding/json.  A document is [shape, tok]: a JSON string holding *)
(* the characters tok, or a value of another shape.                         *)

ErrJSONType == "json: cannot unmarshal into Go value of type string"

ErrJSONSyntax == "json: syntax error"

Shapes == {"string", "number", "bool", "object", "array", "null", "invalid"}

StringDoc(t) == [shape |-> "string", tok |-> t]

OtherDoc(sh) == [shape |-> sh, tok |-> <<>>]

\* A faulty extraction that lets every well-formed value that is no string pass
\* with v left empty, as it does null.
jsonUnmarshalStringAnyShape(b) ==
    CASE b.shape = "string" -> [v |-> b.tok, err |-> NoErr]
      [] b.shape = "invalid" -> [v |-> <<>>, err |-> ErrJSONSyntax]
      [] OTHER -> [v |-> <<>>, err |-> NoErr]

\* var v string; err := json.Unmarshal(b, &v): a JSON string sets v, JSON null
\* leaves v as it is (empty) with no error, any other value is a type error.
jsonUnmarshalString(b) ==
    CASE b.shape = "string" -> [v |-> b.tok, err |-> NoErr]
      [] b.shape = "null" -> [v |-> <<>>, err |-> NoErr]
      [] b.shape = "invalid" -> [v |-> <<>>, err |-> ErrJSONSyntax]
      [] OTHER -> [v |-> <<>>, err |-> ErrJSONType]

------------------------------------------------------------------------------
(* src/types.go.  A method on wrapper s with input b yields a set of         *)
(* outcomes [s, err]: the wrapper afterwards and the error returned.  The set *)
(* has several members only where the language leaves the outcome open.       *)

Kinds ==
    {"StringDuration", "StringInt", "StringFloat64", "StringBinaryByteSize",
     "StringDecimalSize", "StringBool", "StringArray"}

\* The zero value of a []string (nil), and a slice holding elems.
NilSlice == [nil |-> TRUE, elems |-> <<>>]

Slice(elems) == [nil |-> FALSE, elems |-> elems]

\* The zero value of each wrapper type.
ZeroValue(k) ==
    CASE k = "StringBool" -> FALSE
      [] k = "StringArray" -> NilSlice
      [] OTHER -> Zero

\* The tail shared by the scalar methods: return the parse error and leave *s,
\* or store the parsed value.
Store(s, parsed) ==
    IF parsed.err # NoErr THEN [s |-> s, err |-> parsed.err]
    ELSE [s |-> parsed.v, err |-> NoErr]

\* func (s *StringDuration) UnmarshalJSON(b []byte) error
StringDurationUnmarshalJSON(s, b) ==
    UNION { IF j.err # NoErr THEN {[s |-> s, err |-> j.err]}
            ELSE {Store(s, parsed) : parsed \in {ParseDuration(j.v)}}
            : j \in {jsonUnmarshalString(b)} }

\* func (s *StringInt) UnmarshalJSON(b []byte) error
StringIntUnmarshalJSON(s, b) ==
    UNION { IF j.err # NoErr THEN {[s |-> s, err |-> j.err]}
            ELSE {Store(s, value) : value \in {Atoi(j.v)}}
            : j \in {jsonUnmarshalString(b)} }

\* The conversion StringFloat64(value) of a float64 to the type's underlying int
\* (64 bits): the fraction is discarded; a value no int64 holds converts to an
\* implementation-dependent int (MinInt64 on amd64, the nearest bound on arm64).
FloatToInt(f) ==
    IF f = NaN THEN {MinInt64, Zero}
    ELSE IF ~IsFinite(f) THEN {MinInt64, IF f.neg THEN MinInt64 ELSE MaxInt64}
    ELSE IF InInt64(Trunc(f)) THEN {Trunc(f)}
    ELSE {MinInt64, IF f.neg THEN MinInt64 ELSE MaxInt64}

\* *s = StringFloat64(value), with type StringFloat64 int
StoreFloat64(s, value) ==
    IF value.err # NoErr THEN {[s |-> s, err |-> value.err]}
    ELSE {[s |-> i, err |-> NoErr] : i \in FloatToInt(value.v)}

\* func (s *StringFloat64) UnmarshalJSON(b []byte) error
StringFloat64UnmarshalJSON(s, b) ==
    UNION { IF j.err # NoErr THEN {[s |-> s, err |-> j.err]}
            ELSE UNION {StoreFloat64(s, value) : value \in {ParseFloat(j.v)}}
            : j \in {jsonUnmarshalString(b)} }

\* A faulty binary table whose G is the decimal 10^9.
binaryByteSizeMapDecimalG ==
    { [unit |-> <<"B">>, size |-> One],
      [unit |-> <<"K">>, size |-> Pow2(10)],
      [unit |-> <<"M">>, size |-> Pow2(20)],
      [unit |-> <<"G">>, size |-> Pow10(9)],
      [unit |-> <<"T">>, size |-> Pow2(40)],
      [unit |-> <<"P">>, size |-> Pow2(50)],
      [unit |-> <<"E">>, size |-> Pow2(60)] }

\* A faulty binary table with the two-letter key KB beside B and K: B is a
\* suffix of KB.
binaryByteSizeMapWithKB ==
    { [unit |-> <<"B">>, size |-> One],
      [unit |-> <<"K">>, size |-> Pow2(10)],
      [unit |-> <<"K", "B">>, size |-> Pow2(10)],
      [unit |-> <<"M">>, size |-> Pow2(20)],
      [unit |-> <<"G">>, size |-> Pow2(30)],
      [unit |-> <<"T">>, size |-> Pow2(40)],
      [unit |-> <<"P">>, size |-> Pow2(50)],
      [unit |-> <<"E">>, size |-> Pow2(60)] }

\* var binaryByteSizeMap
binaryByteSizeMap ==
    { [unit |-> <<"B">>, size |-> One],
      [unit |-> <<"K">>, size |-> Pow2(10)],
      [unit |-> <<"M">>, size |-> Pow2(20)],
      [unit |-> <<"G">>, size |-> Pow2(30)],
      [unit |-> <<"T">>, size |-> Pow2(40)],
      [unit |-> <<"P">>, size |-> Pow2(50)],
      [unit |-> <<"E">>, size |-> Pow2(60)] }

\* A faulty decimal table that has the key B of the binary table.
decimalSizeMapWithB ==
    { [unit |-> <<"B">>, size |-> One],
      [unit |-> <<"K">>, size |-> Pow10(3)],
      [unit |-> <<"M">>, size |-> Pow10(6)],
      [unit |-> <<"G">>, size |-> Pow10(9)],
      [unit |-> <<"T">>, size |-> Pow10(12)],
      [unit |-> <<"P">>, size |-> Pow10(15)],
      [unit |-> <<"E">>, size |-> Pow10(18)] }

\* var decimalSizeMap
decimalSizeMap ==
    { [unit |-> <<"K">>, size |-> Pow10(3)],
      [unit |-> <<"M">>, size |-> Pow10(6)],
      [unit |-> <<"G">>, size |-> Pow10(9)],
      [unit |-> <<"T">>, size |-> Pow10(12)],
      [unit |-> <<"P">>, size |-> Pow10(15)],
      [unit |-> <<"E">>, size |-> Pow10(18)] }

\* return f * size, nil  (or 0, err)
Scaled(f, size) ==
    IF f.err # NoErr THEN [v |-> Zero, err |-> f.err]
    ELSE [v |-> FloatMul(f.v, size), err |-> NoErr]

\* return f, nil  (or 0, err)
Bare(f) == IF f.err # NoErr THEN [v |-> Zero, err |-> f.err] ELSE [v |-> f.v, err |-> NoErr]

\* func parseSize(v string, m map[string]float64) (float64, error).  The range
\* over m visits the entries in an order the runtime picks anew each time and
\* returns at the first entry whose unit ends v, so each entry whose unit ends v
\* is the first one in some order: every such entry gives a possible outcome
\* (the prefix parsed as a float, times the entry's size).  When no unit ends v
\* the whole of v is parsed.
parseSize(v, m) ==
    IF \E e \in m : HasSuffix(v, e.unit)
    THEN {Scaled(ParseFloat(TrimSuffix(v, e.unit)), e.size) : e \in {h \in m : HasSuffix(v, h.unit)}}
    ELSE {Bare(f) : f \in {ParseFloat(v)}}

\* func (s *StringBinaryByteSize) UnmarshalJSON(b []byte) error
StringBinaryByteSizeUnmarshalJSON(s, b) ==
    UNION { IF j.err # NoErr THEN {[s |-> s, err |-> j.err]}
            ELSE {Store(s, parsed) : parsed \in parseSize(j.v, binaryByteSizeMap)}
            : j \in {jsonUnmarshalString(b)} }

\* func (s *StringDecimalSize) UnmarshalJSON(b []byte) error
StringDecimalSizeUnmarshalJSON(s, b) ==
    UNION { IF j.err # NoErr THEN {[s |-> s, err |-> j.err]}
            ELSE {Store(s, parsed) : parsed \in parseSize(j.v, decimalSizeMap)}
            : j \in {jsonUnmarshalString(b)} }

\* func (s *StringBool) UnmarshalJSON(b []byte) error
StringBoolUnmarshalJSON(s, b) ==
    UNION { IF j.err # NoErr THEN {[s |-> s, err |-> j.err]}
            ELSE {Store(s, parsed) : parsed \in {ParseBool(j.v)}}
            : j \in {jsonUnmarshalString(b)} }

\* A faulty loop body that trims the quotes before the whitespace.
TrimPartQuotesFirst(part) == TrimSpace(Trim(part, {"\""}))

\* One pass of the loop body: part = TrimSpace(part); part = Trim(part, "\"").
TrimPart(part) == Trim(TrimSpace(part), {"\""})

\* for _, part := range parts { ...; *s = append(*s, part) }
RECURSIVE AppendParts(_, _)
AppendParts(elems, parts) ==
    IF parts = <<>> THEN elems
    ELSE AppendParts(Append(elems, TrimPart(Head(parts))), Tail(parts))

\* A faulty method without the reset: the loop appends to the elements held.
KeepSlice(s) == s.elems

\* *s = []string{} : the elements of the slice the loop appends to.
ResetSlice(s) == <<>>

\* func (s *StringArray) UnmarshalJSON(b []byte) error
StringArrayUnmarshalJSON(s, b) ==
    UNION { IF j.err # NoErr THEN {[s |-> s, err |-> j.err]}
            ELSE {[s |-> Slice(AppendParts(ResetSlice(s), Split(Trim(j.v, {"[", "]"}), ","))),
                   err |-> NoErr]}
            : j \in {jsonUnmarshalString(b)} }

\* UnmarshalJSON of the wrapper type k.
UnmarshalJSON(k, s, b) ==
    CASE k = "StringDuration" -> StringDurationUnmarshalJSON(s, b)
      [] k = "StringInt" -> StringIntUnmarshalJSON(s, b)
      [] k = "StringFloat64" -> StringFloat64UnmarshalJSON(s, b)
      [] k = "StringBinaryByteSize" -> StringBinaryByteSizeUnmarshalJSON(s, b)
      [] k = "StringDecimalSize" -> StringDecimalSizeUnmarshalJSON(s, b)
      [] k = "StringBool" -> StringBoolUnmarshalJSON(s, b)
      [] k = "StringArray" -> StringArrayUnmarshalJSON(s, b)

\* float64(*s) of a StringFloat64: the nearest float64 to the stored int.
IntToFloat(i) == RoundFloat64(i)

\* func (s *T) Value() of the wrapper type k: the stored value as the native type.
ValueOf(k, s) == IF k = "StringFloat64" THEN IntToFloat(s) ELSE s

------------------------------------------------------------------------------
(* The documents a wrapper is decoded from *)

\* Every string of at most n characters of A.
SeqsUpTo(A, n) == UNION {{SubSeq(f, 1, k) : f \in [1..k -> A]} : k \in 0..n}

\* The characters the tokens of each type are drawn from exhaustively.
Alphabet(k) ==
    CASE k = "StringDuration" -> {"1", "5", ".", "h", "m", "s"}
      [] k = "StringInt" -> {"0", "1", "9", "-", "+", " ", "a"}
      [] k = "StringFloat64" -> {"1", "5", ".", "e", "E", "-", "+"}
      [] k \in {"StringBinaryByteSize", "StringDecimalSize"} ->
            {"0", "3", ".", "E", "K", "B", "G"}
      [] k = "StringBool" -> {"0", "1", "t", "T", "f", "F"}
      [] k = "StringArray" -> {"a", ",", "[", "]", " ", "\""}

DurationSamples ==
    {<<"1","h","3","0","m">>, <<"5","m","3","0","s">>, <<"3","0","s">>, <<"0">>,
     <<"-","1","h">>, <<"1",".","5","h">>, <<"1","m","s">>, <<"a","b","c">>, <<>>,
     <<"1">>, <<"1","U+00B5","s">>}

IntSamples ==
    {<<"4","2">>, <<"8","0","8","0">>, <<"-","7">>, <<"a","b","c">>, <<>>, <<" ","1">>,
     <<"9","2","2","3","3","7","2","0","3","6","8","5","4","7","7","5","8","0","7">>,
     <<"9","2","2","3","3","7","2","0","3","6","8","5","4","7","7","5","8","0","8">>}

FloatSamples ==
    {<<"3",".","1","4","1","5","9">>, <<"1",".","5">>, <<"-","1",".","5">>,
     <<"-","2",".","7","5">>, <<"1","e","3">>, <<"1","e","3","0">>, <<"a","b","c">>,
     <<>>, <<"i","n","f">>, <<"N","a","N">>, <<"0","x","1","p","-","2">>,
     <<"1","_","0","0","0">>}

SizeSamples ==
    {<<"1",".","5","G">>, <<"1","0","2","4">>, <<"1","G">>, <<"5","0","0","M">>,
     <<"2","T">>, <<"1","P">>, <<"1","E">>, <<"1",".","5","B">>, <<"1","K","B">>,
     <<"-","1",".","5","K">>, <<"1","e","3","K">>, <<"a","b","c">>, <<>>,
     <<"2",".","0","1","K">>, <<"i","n","f","G">>}

BoolSamples ==
    {<<"1">>, <<"t">>, <<"T">>, <<"t","r","u","e">>, <<"T","R","U","E">>,
     <<"T","r","u","e">>, <<"0">>, <<"f">>, <<"F">>, <<"f","a","l","s","e">>,
     <<"F","A","L","S","E">>, <<"F","a","l","s","e">>, <<"y","e","s">>,
     <<"t","R","U","E">>, <<"2">>, <<>>}

ArraySamples ==
    {<<"[","h","o","s","t","1",",","h","o","s","t","2",",","h","o","s","t","3","]">>,
     <<>>, <<"a",","," ","b">>,
     <<"[","\"","i","t","e","m","1","\"",","," ","\"","i","t","e","m","2","\"","]">>,
     <<"\""," ","a"," ","\"">>, <<"[","[","a","]",",","b","]">>, <<"a",",",",","b">>,
     <<"\t","a","\t",",","b">>, <<"U+00A0","a","U+000B",",","\f","b","U+3000">>,
     <<"i","t","e","m","1",",","i","t","e","m","2",",","i","t","e","m","3">>}

\* Tokens at the edges of a type's parser: the ranges of int64, uint64 and
\* float64, the rarer spellings.
Edges(k) ==
    CASE k = "StringDuration" ->
            {<<"1","U+03BC","s">>,
             <<".","0","0","0","0","0","0","0","4","1","9","9","9","9","9","9","9","9","9","9","9","9","9","9","s">>,
             <<".","9","9","9","9","9","9","9","9","9","9","9","9","9","9","9","9","9","9","9","n","s">>,
             <<"-","9","2","2","3","3","7","2","0","3","6","8","5","4","7","7","5","8","0","8","n","s">>,
             <<"9","2","2","3","3","7","2","0","3","6","8","5","4","7","7","5","8","0","8","n","s">> \o
             <<"9","2","2","3","3","7","2","0","3","6","8","5","4","7","7","5","8","0","8","n","s">>}
      [] k = "StringInt" ->
            {<<"9","9","9","9","9","9","9","9","9","9","9","9","9","9","9","9","9","9","9","9","a">>}
      [] k = "StringFloat64" ->
            {<<"-","I","n","f">>, <<"+","i","n","f","i","n","i","t","y">>, <<"0","x","1">>,
             <<"1","_">>, <<"1","e","4","0","0">>, <<"2","e","-","3","2","4">>,
             <<"0",".","9","9","9","9","9","9","9","9","9","9","9","9","9","9","9","9","9","9","9","9">>,
             <<"9","0","0","7","1","9","9","2","5","4","7","4","0","9","9","3">>,
             <<"1",".","7","9","7","6","9","3","1","3","4","8","6","2","3","1","5","8","e","3","0","8">>}
      [] k \in {"StringBinaryByteSize", "StringDecimalSize"} ->
            {<<"N","a","N","K">>, <<"1","e","3","0","8","K">>, <<"0","x","1","p","4","K">>}
      [] OTHER -> {}

\* Longer tokens of each type: the examples of the documentation and more.
Samples(k) ==
    CASE k = "StringDuration" -> DurationSamples
      [] k = "StringInt" -> IntSamples
      [] k = "StringFloat64" -> FloatSamples
      [] k \in {"StringBinaryByteSize", "StringDecimalSize"} -> SizeSamples
      [] k = "StringBool" -> BoolSamples
      [] k = "StringArray" -> ArraySamples

Tokens(k) == SeqsUpTo(Alphabet(k), MaxLen) \cup Samples(k) \cup Edges(k)

\* Every document a wrapper of type k is decoded from once.
Docs(k) == {StringDoc(t) : t \in Tokens(k)} \cup {OtherDoc(sh) : sh \in Shapes \ {"string"}}

\* The documents a wrapper of type k is decoded from again and again.
LifeDocs(k) == {StringDoc(t) : t \in Samples(k)} \cup {OtherDoc(sh) : sh \in {"number", "null"}}

NoDoc == OtherDoc("none")

------------------------------------------------------------------------------
(* The state machine: one wrapper, its UnmarshalJSON and Value methods *)

\* A wrapper of some type, zero-valued as its embedding struct creates it.
Init ==
    /\ kind \in Kinds
    /\ doc = NoDoc
    /\ life = "zero"
    /\ val = ZeroValue(kind)
    /\ err = NoErr
    /\ ret = <<>>
    /\ last = NoDoc

\* The same, with the document it is about to be decoded from.
InitOnce ==
    /\ kind \in Kinds
    /\ doc \in Docs(kind)
    /\ life = "zero"
    /\ val = ZeroValue(kind)
    /\ err = NoErr
    /\ ret = <<>>
    /\ last = NoDoc

\* s.UnmarshalJSON(b)
CallUnmarshalJSON(b) ==
    \E r \in UnmarshalJSON(kind, val, b) :
        /\ val' = r.s
        /\ err' = r.err
        /\ doc' = b
        /\ life' = IF r.err = NoErr THEN "decoded"
                   ELSE IF life = "zero" THEN "failed" ELSE life
        /\ ret' = <<>>
        /\ last' = IF r.err = NoErr THEN b ELSE last
        /\ UNCHANGED kind

\* A faulty accessor that hands the value over and leaves the zero value behind.
CallValueTaking ==
    /\ ret' = <<ValueOf(kind, val)>>
    /\ val' = ZeroValue(kind)
    /\ UNCHANGED <<kind, doc, life, err, last>>

\* s.Value()
CallValue ==
    /\ ret' = <<ValueOf(kind, val)>>
    /\ UNCHANGED <<kind, doc, life, val, err, last>>

Decode == \E b \in LifeDocs(kind) : CallUnmarshalJSON(b)

DecodeOnce == life = "zero" /\ CallUnmarshalJSON(doc)

Next == Decode \/ CallValue

NextOnce == DecodeOnce \/ CallValue

\* A wrapper decoded any number of times.
Spec == Init /\ [][Next]_vars

\* A zero-valued wrapper decoded once, from any document.
SpecOnce == InitOnce /\ [][NextOnce]_vars

------------------------------------------------------------------------------
(* The documented behaviour, stated without the operators above where it can *)
(* be, and the properties checked.                                            *)

\* The multiplier tables as the documentation lists them.
DocBinaryTable ==
    [B |-> Nat10(<<"1">>),
     K |-> Nat10(<<"1","0","2","4">>),
     M |-> Nat10(<<"1","0","4","8","5","7","6">>),
     G |-> Nat10(<<"1","0","7","3","7","4","1","8","2","4">>),
     T |-> Nat10(<<"1","0","9","9","5","1","1","6","2","7","7","7","6">>),
     P |-> Nat10(<<"1","1","2","5","8","9","9","9","0","6","8","4","2","6","2","4">>),
     E |-> Nat10(<<"1","1","5","2","9","2","1","5","0","4","6","0","6","8","4","6","9","7","6">>)]

DocDecimalTable ==
    [K |-> Nat10(<<"1","0","0","0">>),
     M |-> Nat10(<<"1","0","0","0","0","0","0">>),
     G |-> Nat10(<<"1","0","0","0","0","0","0","0","0","0">>),
     T |-> Nat10(<<"1","0","0","0","0","0","0","0","0","0","0","0","0">>),
     P |-> Nat10(<<"1","0","0","0","0","0","0","0","0","0","0","0","0","0","0","0">>),
     E |-> Nat10(<<"1","0","0","0","0","0","0","0","0","0","0","0","0","0","0","0","0","0","0">>)]

SizeKinds == {"StringBinaryByteSize", "StringDecimalSize"}

DocTable(k) == IF k = "StringBinaryByteSize" THEN DocBinaryTable ELSE DocDecimalTable

\* The table a size type hands to parseSize.
TableOf(k) == IF k = "StringBinaryByteSize" THEN binaryByteSizeMap ELSE decimalSizeMap

\* The decode has been called on a JSON string.
DecodedString == life # "zero" /\ doc.shape = "string"

\* The last character of a token, and the token without it.
LastChar(t) == t[Len(t)]

ButLast(t) == SubSeq(t, 1, Len(t) - 1)

\* The token is <number><unit> for a unit of the type's table.
NumberAndUnit(k, t) ==
    /\ t # <<>>
    /\ LastChar(t) \in DOMAIN DocTable(k)
    /\ ParseFloat(ButLast(t)).err = NoErr

Tok15G == <<"1", ".", "5", "G">>

Tok15B == <<"1", ".", "5", "B">>

Tok1024 == <<"1", "0", "2", "4">>

\* C1: a size token <number><unit>, the number a float f and the unit a key of
\* the type's table, decodes with no error to f times the multiplier the
\* documentation lists for the unit; "1.5G" gives 1610612736 (binary) and
\* 1500000000 (decimal).
C1_SizeIsNumberTimesMultiplier ==
    (kind \in SizeKinds /\ DecodedString) =>
        /\ NumberAndUnit(kind, doc.tok) =>
              /\ err = NoErr
              /\ val = FloatMul(ParseFloat(ButLast(doc.tok)).v,
                               DocTable(kind)[LastChar(doc.tok)])
        /\ (kind = "StringBinaryByteSize" /\ doc.tok = Tok15G) =>
              val = Nat10(<<"1","6","1","0","6","1","2","7","3","6">>)
        /\ (kind = "StringDecimalSize" /\ doc.tok = Tok15G) =>
              val = Nat10(<<"1","5","0","0","0","0","0","0","0","0">>)

\* "1.5G" has been decoded with the binary table.
C1_Witness ==
    /\ kind = "StringBinaryByteSize"
    /\ life = "decoded"
    /\ doc = StringDoc(Tok15G)
    /\ val = Nat10(<<"1","6","1","0","6","1","2","7","3","6">>)

\* The token ends with no key of the type's table.
NoUnit(k, t) == t = <<>> \/ LastChar(t) \notin DOMAIN DocTable(k)

\* C2: a size token that ends with no key of the type's table is parsed whole:
\* a float is stored as it is ("1024" gives 1024 under both tables), anything
\* else is an error.  A token ending in B has no key under the decimal table
\* (so it is an error there, B being no part of a float), and is the number
\* before the B, times 1, under the binary table.
C2_NoUnitIsBareFloat ==
    (kind \in SizeKinds /\ DecodedString) =>
        /\ (NoUnit(kind, doc.tok) /\ ParseFloat(doc.tok).err = NoErr) =>
              err = NoErr /\ val = ParseFloat(doc.tok).v
        /\ (NoUnit(kind, doc.tok) /\ ParseFloat(doc.tok).err # NoErr) =>
              err # NoErr /\ val = Zero
        /\ doc.tok = Tok1024 => err = NoErr /\ val = Nat10(Tok1024)
        /\ (doc.tok # <<>> /\ LastChar(doc.tok) = "B") =>
              IF kind = "StringDecimalSize" THEN err # NoErr
              ELSE ParseFloat(ButLast(doc.tok)).err = NoErr =>
                       err = NoErr /\ val = ParseFloat(ButLast(doc.tok)).v

\* "1.5B" has been refused with the decimal table.
C2_Witness ==
    /\ kind = "StringDecimalSize"
    /\ life = "failed"
    /\ doc = StringDoc(Tok15B)
    /\ err = ErrSyntax

\* C3: a token that parses as a float f decodes as a StringFloat64 with no error,
\* and Value() then returns f exactly ("3.14159", "1.5").
C3_FloatKeptExactly ==
    (kind = "StringFloat64" /\ DecodedString /\ ParseFloat(doc.tok).err = NoErr) =>
        /\ err = NoErr
        /\ ret # <<>> => ret[1] = ParseFloat(doc.tok).v

\* Value() has answered after "1.5" was decoded.
C3_Witness ==
    /\ kind = "StringFloat64"
    /\ life = "decoded"
    /\ doc = StringDoc(<<"1", ".", "5">>)
    /\ ret # <<>>

\* What a token parses to in full, for each type: the values the parse may
\* give, or none when it is an error.
FullyParsed(k, t) ==
    CASE k = "StringDuration" -> {p.v : p \in {q \in {ParseDuration(t)} : q.err = NoErr}}
      [] k = "StringInt" -> {p.v : p \in {q \in {Atoi(t)} : q.err = NoErr}}
      [] k = "StringFloat64" -> {p.v : p \in {q \in {ParseFloat(t)} : q.err = NoErr}}
      [] k \in SizeKinds -> {p.v : p \in {q \in parseSize(t, TableOf(k)) : q.err = NoErr}}
      [] k = "StringBool" -> {p.v : p \in {q \in {ParseBool(t)} : q.err = NoErr}}
      [] k = "StringArray" -> {Slice(AppendParts(<<>>, Split(Trim(t, {"[", "]"}), ",")))}

\* A decode of a zero-valued wrapper stored the fully parsed value, or it
\* returned an error and left the zero value.
AllOrNothing ==
    life # "zero" =>
        /\ err # NoErr => val = ZeroValue(kind)
        /\ (err = NoErr /\ doc.shape = "string") => val \in FullyParsed(kind, doc.tok)

\* C4: for each of the seven types and every token, a decode of a zero-valued
\* wrapper either stores the fully parsed value and returns no error, or returns
\* an error and leaves the zero value.
C4_AllOrNothing == AllOrNothing

\* The same for the six types other than StringFloat64.
C4_OtherTypesAllOrNothing == kind # "StringFloat64" => AllOrNothing

\* A StringFloat64 decode returned no error and stored less than the float.
C4_Witness ==
    /\ kind = "StringFloat64"
    /\ life = "decoded"
    /\ doc = StringDoc(<<"3", ".", "1", "4", "1", "5", "9">>)
    /\ val = Nat10(<<"3">>)

\* C5 as documented: a document that is no JSON string (a number, boolean,
\* object, array or null) is an error for every type, and a StringArray decode
\* fails in these cases only.
C5_NonStringIsError ==
    life # "zero" =>
        /\ doc.shape # "string" => err # NoErr
        /\ kind = "StringArray" => (err # NoErr <=> doc.shape # "string")

\* C5, amended: a JSON number, boolean, object or array (or a malformed
\* document) is an error for every type and leaves the wrapper alone.  JSON null
\* is decoded as the empty token: an error for the six scalar types, and for a
\* StringArray no error but one empty element.  A StringArray decode fails in
\* the cases of the first sentence only.
C5_NonStringNonNullIsError ==
    life # "zero" =>
        /\ doc.shape \notin {"string", "null"} => err # NoErr /\ val = ZeroValue(kind)
        /\ (doc.shape = "null" /\ kind # "StringArray") => err # NoErr /\ val = ZeroValue(kind)
        /\ (doc.shape = "null" /\ kind = "StringArray") => err = NoErr /\ val = Slice(<<<<>>>>)
        /\ kind = "StringArray" => (err # NoErr <=> doc.shape \notin {"string", "null"})

\* A StringArray has decoded null.
C5_Witness ==
    /\ kind = "StringArray"
    /\ life = "decoded"
    /\ doc = OtherDoc("null")
    /\ err = NoErr

\* The token between its leading and its trailing brackets.
Inner(t) ==
    IF \A i \in 1..Len(t) : t[i] \in {"[", "]"} THEN <<>>
    ELSE SubSeq(t, CHOOSE i \in 1..Len(t) : t[i] \notin {"[", "]"}
                       /\ \A j \in 1..(i - 1) : t[j] \in {"[", "]"},
                   CHOOSE i \in 1..Len(t) : t[i] \notin {"[", "]"}
                       /\ \A j \in (i + 1)..Len(t) : t[j] \in {"[", "]"})

\* Where the commas of r are, with 0 and Len(r) + 1 as the two ends.
Cuts(r) == {0, Len(r) + 1} \cup {i \in 1..Len(r) : r[i] = ","}

\* The i-th comma-separated part of r: what lies between the i-th cut and the next.
PartOf(r, i) ==
    SubSeq(r, (CHOOSE c \in Cuts(r) : Cardinality({d \in Cuts(r) : d < c}) = i - 1) + 1,
              (CHOOSE c \in Cuts(r) : Cardinality({d \in Cuts(r) : d < c}) = i) - 1)

\* x is a run of consecutive characters of y.
IsSubstring(x, y) == \E a \in 0..(Len(y) - Len(x)) : SubSeq(y, a + 1, a + Len(x)) = x

TokHosts ==
    <<"[","h","o","s","t","1",",","h","o","s","t","2",",","h","o","s","t","3","]">>

\* C6: every string token decodes as a StringArray with no error, to one element
\* per comma-separated part of the token between its leading and trailing
\* brackets, in the order of the parts: commas + 1 elements, never none.
\* "[host1,host2,host3]" gives host1, host2, host3; the empty token gives one
\* empty element.
C6_OneElementPerPart ==
    (kind = "StringArray" /\ DecodedString) =>
        /\ err = NoErr
        /\ ~val.nil
        /\ Len(val.elems) = Cardinality(Cuts(Inner(doc.tok))) - 1
        /\ Len(val.elems) >= 1
        /\ \A i \in 1..Len(val.elems) : IsSubstring(val.elems[i], PartOf(Inner(doc.tok), i))
        /\ doc.tok = TokHosts =>
              val.elems = << <<"h","o","s","t","1">>, <<"h","o","s","t","2">>,
                             <<"h","o","s","t","3">> >>
        /\ doc.tok = <<>> => val.elems = << <<>> >>

\* A token with an empty part between two commas has been decoded.
C6_Witness ==
    /\ kind = "StringArray"
    /\ life = "decoded"
    /\ doc = StringDoc(<<"a", ",", ",", "b">>)
    /\ Len(val.elems) = 3

IsSpace(c) ==
    \/ c \in {" ", "\t", "\n", "\r", "\f", "U+000B", "U+0085", "U+00A0", "U+1680"}
    \/ c \in {"U+2000", "U+2001", "U+2002", "U+2003", "U+2004", "U+2005", "U+2006",
              "U+2007", "U+2008", "U+2009", "U+200A"}
    \/ c \in {"U+2028", "U+2029", "U+202F", "U+205F", "U+3000"}

\* The first and the last character of x that is no whitespace (x has one).
FirstInk(x) == x[CHOOSE i \in 1..Len(x) : ~IsSpace(x[i]) /\ \A j \in 1..(i - 1) : IsSpace(x[j])]

LastInk(x) == x[CHOOSE i \in 1..Len(x) : ~IsSpace(x[i]) /\ \A j \in (i + 1)..Len(x) : IsSpace(x[j])]

\* C7 as documented: after a StringArray decode that returned no error, no
\* stored element begins or ends with a whitespace character.
C7_NoOuterWhitespace ==
    (kind = "StringArray" /\ life # "zero" /\ err = NoErr) =>
        \A i \in 1..Len(val.elems) :
            val.elems[i] # <<>> =>
                ~IsSpace(val.elems[i][1]) /\ ~IsSpace(val.elems[i][Len(val.elems[i])])

\* C7, amended: after a StringArray decode that returned no error, no stored
\* element begins or ends with a double quote, and an element begins (ends) with
\* a whitespace character only where the part it was cut from had a double
\* quote as its first (last) character that is no whitespace: whitespace inside
\* the quotes is kept.
C7_NoOuterQuoteSpaceOnlyInsideQuotes ==
    (kind = "StringArray" /\ DecodedString /\ err = NoErr) =>
        \A i \in 1..Len(val.elems) :
            val.elems[i] # <<>> =>
                /\ val.elems[i][1] # "\""
                /\ val.elems[i][Len(val.elems[i])] # "\""
                /\ IsSpace(val.elems[i][1]) => FirstInk(PartOf(Inner(doc.tok), i)) = "\""
                /\ IsSpace(val.elems[i][Len(val.elems[i])]) =>
                       LastInk(PartOf(Inner(doc.tok), i)) = "\""

\* The token  " a  (a quote, a space, an a) has been decoded to the element  " a"
\* that begins with the space.
C7_Witness ==
    /\ kind = "StringArray"
    /\ life = "decoded"
    /\ doc = StringDoc(<<"\"", " ", "a">>)
    /\ val.elems = << <<" ", "a">> >>

\* The zero value of each type as the documentation lists it: 0 duration, 0,
\* 0.0, false, an absent or empty sequence.
IsDocZero(k, v) ==
    CASE k = "StringBool" -> v = FALSE
      [] k = "StringArray" -> v.elems = <<>>
      [] OTHER -> v = [neg |-> FALSE, limbs |-> <<>>, exp |-> 0]

\* A value of the native type Value() returns for type k: a 64-bit duration or
\* int, a float64, a bool, a sequence.
IsNative(k, v) ==
    CASE k = "StringBool" -> v \in BOOLEAN
      [] k = "StringArray" -> DOMAIN v.elems = 1..Len(v.elems)
      [] k \in {"StringDuration", "StringInt"} -> IsFinite(v) /\ Trunc(v) = v /\ InInt64(v)
      [] OTHER -> ~IsFinite(v) \/ RoundFloat64(v) = v

\* C8: Value() has a result of the native type in every state and leaves the
\* wrapper as it is; before any decode that returned no error it returns the zero
\* value of the type; and a Value() call that follows another, with no decode in
\* between, returns what that one returned.
C8_ValueIsPure ==
    /\ [](IsNative(kind, ValueOf(kind, val)))
    /\ []((ret # <<>> /\ life # "decoded") => IsDocZero(kind, ret[1]))
    /\ [][ret' # <<>> => (val' = val /\ (ret # <<>> => ret' = ret))]_vars

\* Value() has answered a decoded StringDuration with a duration that is not 0.
C8_Witness ==
    /\ kind = "StringDuration"
    /\ life = "decoded"
    /\ ret = <<val>>
    /\ val # Zero

\* C9: no key of a table is a suffix of another, so at most one key ends a
\* token, and parseSize has one outcome, the one observed, whichever entry the
\* iteration over the table comes to first.
C9_OrderIndependent ==
    /\ \A k \in SizeKinds : \A e1, e2 \in TableOf(k) :
           e1 # e2 => ~HasSuffix(e1.unit, e2.unit)
    /\ (kind \in SizeKinds /\ DecodedString) =>
          /\ Cardinality({e \in TableOf(kind) : HasSuffix(doc.tok, e.unit)}) <= 1
          /\ parseSize(doc.tok, TableOf(kind))
                 = {[v |-> IF err = NoErr THEN val ELSE Zero, err |-> err]}

TokE == <<"3", "E">>

\* "3E", which ends with the key E and is the start of a float with an exponent,
\* has been decoded with the binary table.
C9_Witness ==
    /\ kind = "StringBinaryByteSize"
    /\ life = "decoded"
    /\ doc = StringDoc(TokE)
    /\ val = Mul(Nat10(<<"3">>), DocBinaryTable.E)

\* What a decode of document b gives a zero-valued wrapper when it returns no error.
FreshDecode(k, b) == {r.s : r \in {q \in UnmarshalJSON(k, ZeroValue(k), b) : q.err = NoErr}}

\* C10: after any calls of UnmarshalJSON the wrapper holds what the latest call
\* that returned no error gives a zero-valued wrapper, or the zero value when
\* none did: a failing call leaves the value, and a StringArray holds the
\* elements of its latest decode only.
C10_LatestSuccessAlone ==
    /\ life # "decoded" => val = ZeroValue(kind)
    /\ life = "decoded" => val \in FreshDecode(kind, last)

\* A StringArray whose latest call failed holds the one element of the decode
\* before it.
C10_Witness ==
    /\ kind = "StringArray"
    /\ life = "decoded"
    /\ last = StringDoc(<<>>)
    /\ doc # last
    /\ val = Slice(<< <<>> >>)

====
